---- MODULE Spec2Model ----
(***************************************************************************)
(* SAP baseline -> PLM validation (src/app.py).  One run of the "Run       *)
(* comparison" block: the two uploaded tables are normalised, the PLM      *)
(* index is built, every SAP row is evaluated in input order and the       *)
(* summary numbers are computed from the result rows.                      *)
(*                                                                         *)
(* A cell is a sequence of one-character strings.  An optional number      *)
(* (Python None or a float) is the empty sequence or a one-element         *)
(* sequence.                                                               *)
(***************************************************************************)
EXTENDS Integers, Sequences, FiniteSets, TLC

VARIABLES pc, sap_df, plm_df, fuzzy_threshold, plm_index_by_material,
          plm_material_values, results, missing_in_plm_rows, summary,
          quantities, compared

vars == <<pc, sap_df, plm_df, fuzzy_threshold, plm_index_by_material,
          plm_material_values, results, missing_in_plm_rows, summary,
          quantities, compared>>

\* ------------------------------------------------------------------------
\* Bounds of the model
\* ------------------------------------------------------------------------
MaxSapRows == 2

MaxPlmRows == 2

\* ------------------------------------------------------------------------
\* Program constants
\* ------------------------------------------------------------------------
\* st.slider(..., min_value=60, max_value=100, value=85)
SliderMax == 100

\* ------------------------------------------------------------------------
\* Python values
\* ------------------------------------------------------------------------
None == <<>>

Some(n) == <<n>>

Max2(a, b) == IF a >= b THEN a ELSE b

Abs(a) == IF a < 0 THEN -a ELSE a

\* ord() of the characters that occur in the cells of the model
Ord(c) ==
  CASE c = " " -> 32 [] c = "," -> 44 [] c = "-" -> 45 [] c = "/" -> 47
    [] c = "0" -> 48 [] c = "1" -> 49 [] c = "2" -> 50 [] c = "3" -> 51
    [] c = "5" -> 53 [] c = "9" -> 57 [] c = "M" -> 77
    [] c = "a" -> 97 [] c = "b" -> 98 [] c = "m" -> 109 [] c = "n" -> 110
    [] c = "v" -> 118 [] c = "x" -> 120 [] c = "z" -> 122

IsDigit(c) == Ord(c) \in 48..57

IsAlnum(c) == Ord(c) \in (48..57) \cup (65..90) \cup (97..122)

\* str.lower() on one character
LowerChar(c) == IF c = "M" THEN "m" ELSE c

DigitVal(c) == Ord(c) - 48

\* str.lstrip() / str.rstrip() / str.strip(): whitespace only
RECURSIVE lstrip(_)
lstrip(s) == IF s # <<>> /\ Head(s) = " " THEN lstrip(Tail(s)) ELSE s

RECURSIVE rstrip(_)
rstrip(s) ==
  IF s # <<>> /\ s[Len(s)] = " " THEN rstrip(SubSeq(s, 1, Len(s) - 1)) ELSE s

strip(s) == rstrip(lstrip(s))

\* sub in s
Contains(s, sub) ==
  \E i \in 0..(Len(s) - Len(sub)) : SubSeq(s, i + 1, i + Len(sub)) = sub

\* s.startswith(p)
startswith(s, p) == Len(s) >= Len(p) /\ SubSeq(s, 1, Len(p)) = p

\* s.replace(",", "")
RECURSIVE RemoveCommas(_)
RemoveCommas(s) ==
  IF s = <<>> THEN <<>>
  ELSE IF Head(s) = "," THEN RemoveCommas(Tail(s))
       ELSE <<Head(s)>> \o RemoveCommas(Tail(s))

RECURSIVE DecimalValue(_)
DecimalValue(s) ==
  IF s = <<>> THEN 0 ELSE 10 * DecimalValue(SubSeq(s, 1, Len(s) - 1)) + DigitVal(s[Len(s)])

\* safe_number: None for None / "" and for anything float() rejects.  The
\* cells of the model are integer literals with an optional minus sign,
\* literals with thousands separators, and non-numeric text.
safe_number(x) ==
  IF x = <<>> THEN None
  ELSE LET s == RemoveCommas(x)
           neg == s # <<>> /\ Head(s) = "-"
           d == IF neg THEN Tail(s) ELSE s
       IN IF d # <<>> /\ \A i \in 1..Len(d) : IsDigit(d[i])
          THEN Some(IF neg THEN -DecimalValue(d) ELSE DecimalValue(d))
          ELSE None

\* ------------------------------------------------------------------------
\* Similarity scorers
\* ------------------------------------------------------------------------
\* round() of the rational num/den (den > 0, num >= 0): ties go to even
RoundHalfEven(num, den) ==
  LET q == num \div den
      r == num % den
  IN IF 2 * r < den THEN q
     ELSE IF 2 * r > den THEN q + 1
     ELSE IF q % 2 = 0 THEN q ELSE q + 1

\* mutant: the denominator is taken from the first quantity only
consumption_similarity_first_denom(a, b) ==
  IF a = None /\ b = None THEN 10000
  ELSE LET av == IF a = None THEN 0 ELSE a[1]
           bv == IF b = None THEN 0 ELSE b[1]
           denom == Max2(Abs(av), 1)
       IN IF av = 0 /\ bv = 0 THEN 10000
          ELSE IF Abs(av - bv) >= denom THEN 0
          ELSE RoundHalfEven(10000 * (denom - Abs(av - bv)), denom)

\* consumption_similarity, in hundredths (round(score, 2) * 100)
consumption_similarity(a, b) ==
  IF a = None /\ b = None THEN 10000
  ELSE LET av == IF a = None THEN 0 ELSE a[1]
           bv == IF b = None THEN 0 ELSE b[1]
           denom == Max2(Max2(Abs(av), Abs(bv)), 1)
       IN IF av = 0 /\ bv = 0 THEN 10000
          ELSE IF Abs(av - bv) >= denom THEN 0
          ELSE RoundHalfEven(10000 * (denom - Abs(av - bv)), denom)

\* thefuzz utils.full_process: non-alphanumerics become blanks, lower, strip
full_process(s) ==
  strip([i \in 1..Len(s) |-> IF IsAlnum(s[i]) THEN LowerChar(s[i]) ELSE " "])

\* str.split(): the maximal runs of non-blank characters
RECURSIVE split(_)
split(s) ==
  LET t == lstrip(s)
  IN IF t = <<>> THEN <<>>
     ELSE LET n == IF \E i \in 1..Len(t) : t[i] = " "
                   THEN (CHOOSE i \in 1..Len(t) :
                           t[i] = " " /\ \A j \in 1..(i - 1) : t[j] # " ") - 1
                   ELSE Len(t)
          IN <<SubSeq(t, 1, n)>> \o split(SubSeq(t, n + 1, Len(t)))

\* a < b for Python strings (code point order)
RECURSIVE StrLess(_, _)
StrLess(a, b) ==
  IF b = <<>> THEN FALSE
  ELSE IF a = <<>> THEN TRUE
  ELSE IF Ord(Head(a)) # Ord(Head(b)) THEN Ord(Head(a)) < Ord(Head(b))
  ELSE StrLess(Tail(a), Tail(b))

\* sorted(tokens): insertion of each token after the tokens not greater
RECURSIVE InsertSorted(_, _)
InsertSorted(t, ts) ==
  IF ts = <<>> THEN <<t>>
  ELSE IF StrLess(t, Head(ts)) THEN <<t>> \o ts
  ELSE <<Head(ts)>> \o InsertSorted(t, Tail(ts))

RECURSIVE sorted(_)
sorted(ts) ==
  IF ts = <<>> THEN <<>>
  ELSE InsertSorted(ts[Len(ts)], sorted(SubSeq(ts, 1, Len(ts) - 1)))

\* " ".join(tokens)
RECURSIVE join(_)
join(ts) ==
  IF ts = <<>> THEN <<>>
  ELSE IF Len(ts) = 1 THEN ts[1]
  ELSE ts[1] \o <<" ">> \o join(Tail(ts))

\* length of a longest common subsequence
RECURSIVE LCS(_, _)
LCS(a, b) ==
  IF a = <<>> \/ b = <<>> THEN 0
  ELSE IF Head(a) = Head(b) THEN 1 + LCS(Tail(a), Tail(b))
  ELSE Max2(LCS(Tail(a), b), LCS(a, Tail(b)))

\* fuzz.ratio: normalised indel similarity, int(round(100 * 2*LCS / (|a|+|b|)))
ratio(a, b) ==
  IF Len(a) + Len(b) = 0 THEN 100
  ELSE RoundHalfEven(200 * LCS(a, b), Len(a) + Len(b))

\* fuzz.token_sort_ratio
token_sort_ratio(a, b) ==
  ratio(join(sorted(split(full_process(a)))),
        join(sorted(split(full_process(b)))))

\* process.extractOne(query, choices, scorer=fuzz.token_sort_ratio):
\* the first choice with the highest score, None when there is no choice
RECURSIVE extractOne(_, _)
extractOne(query, choices) ==
  IF choices = <<>> THEN None
  ELSE LET n == Len(choices)
           prev == extractOne(query, SubSeq(choices, 1, n - 1))
           sc == token_sort_ratio(query, choices[n])
       IN IF prev = None \/ sc > prev[1][2]
          THEN <<(<<choices[n], sc>>)>>
          ELSE prev

\* ------------------------------------------------------------------------
\* Result texts
\* ------------------------------------------------------------------------
ComponentExcludedFlag == "Component excluded (contains '-' or starts with '3')"

VendorExact == "Vendor OK (exact match)"

VendorInDescription == "Vendor OK (found in material description)"

VendorNotFound == "Vendor Not Found"

MissingConsumption == "Missing consumption value"

SapHigher == "SAP consumption is higher"

DifferenceOK == "OK"

\* one " | "-separated part of the Notes text; score is the number printed
\* in the text, None when the text carries none
Note(text, score) == [text |-> text, score |-> score]

\* ------------------------------------------------------------------------
\* The per-row evaluation (body of the loop over sap_df.iterrows())
\* ------------------------------------------------------------------------
\* mutant: the PLM quantity and the difference start at zero
row_init_zero_default(srow) ==
  [Material_SAP |-> srow.mat,
   Material_Description_SAP |-> srow.desc,
   Component_SAP |-> srow.comp,
   Vendor_SAP |-> srow.vendor,
   Color_SAP |-> srow.color,
   SAP_Consumption |-> safe_number(srow.cons),
   Found_in_PLM |-> FALSE,
   Component_Flag |-> "",
   Vendor_Check |-> "",
   PLM_Material |-> <<>>,
   Vendor_PLM |-> <<>>,
   Color_PLM |-> <<>>,
   PLM_Consumption |-> Some(0),
   ConsumptionDiff |-> Some(0),
   DifferenceFlag |-> "",
   Material_Similarity |-> 0,
   Color_Similarity |-> 0,
   Consumption_Similarity |-> 0,
   Notes |-> <<>>]

\* initialize output fields
row_init(srow) ==
  [Material_SAP |-> srow.mat,
   Material_Description_SAP |-> srow.desc,
   Component_SAP |-> srow.comp,
   Vendor_SAP |-> srow.vendor,
   Color_SAP |-> srow.color,
   SAP_Consumption |-> safe_number(srow.cons),
   Found_in_PLM |-> FALSE,
   Component_Flag |-> "",
   Vendor_Check |-> "",
   PLM_Material |-> <<>>,
   Vendor_PLM |-> <<>>,
   Color_PLM |-> <<>>,
   PLM_Consumption |-> None,
   ConsumptionDiff |-> None,
   DifferenceFlag |-> "",
   Material_Similarity |-> 0,
   Color_Similarity |-> 0,
   Consumption_Similarity |-> 0,
   Notes |-> <<>>]

\* mutant: the starts-with-'3' alternative is dropped
component_excluded_hyphen_only(sap_comp) ==
  sap_comp # <<>> /\ Contains(sap_comp, <<"-">>)

\* 1) Component check
component_excluded(sap_comp) ==
  sap_comp # <<>> /\ (Contains(sap_comp, <<"-">>) \/ startswith(lstrip(sap_comp), <<"3">>))

\* mutant: a key carried by several PLM rows is not looked up exactly
exact_hit_unique_only(sap_mat, index) ==
  sap_mat # <<>> /\ sap_mat \in DOMAIN index /\ Len(index[sap_mat]) = 1

\* 2) Material exact match in PLM: sap_mat and sap_mat in plm_index_by_material
exact_hit(sap_mat, index) == sap_mat # <<>> /\ sap_mat \in DOMAIN index

\* plm_index_by_material[sap_mat][0]
first_of_key(entries) == entries[1]

\* mutant: a score equal to the threshold is rejected
fuzzy_accepts_strict(best, threshold) == best # None /\ best[1][2] > threshold

\* best and best[1] >= fuzzy_threshold
fuzzy_accepts(best, threshold) == best # None /\ best[1][2] >= threshold

\* mutant: rows with a blank material are left out of the selection
index_of_value_nonblank(plm, pm_val) ==
  {i \in DOMAIN plm : plm[i].mat = pm_val /\ plm[i].mat # <<>>}

\* plm_df[plm_df[plm_material_col] == pm_val].index
index_of_value(plm, pm_val) == {i \in DOMAIN plm : plm[i].mat = pm_val}

\* mutant: the last row with the value is taken
first_index_last(pm_idx) == CHOOSE i \in pm_idx : \A j \in pm_idx : i >= j

\* pm_idx[0]
first_index(pm_idx) == CHOOSE i \in pm_idx : \A j \in pm_idx : i <= j

\* The match step.  kind: "exact", "fuzzy", "unmatched" (appended to the
\* missing list, checks skipped) or "none" (no row bound, not skipped);
\* prow: the matched PLM row, None when none is bound.
match_row(sap_mat, plm, index, values, threshold) ==
  IF exact_hit(sap_mat, index)
  THEN [kind |-> "exact", prow |-> Some(first_of_key(index[sap_mat])[2]), notes |-> <<>>]
  ELSE IF values # <<>>
       THEN LET best == extractOne(sap_mat, values)
            IN IF fuzzy_accepts(best, threshold)
               THEN LET pm_idx == index_of_value(plm, best[1][1])
                    IN IF Cardinality(pm_idx) > 0
                       THEN [kind |-> "fuzzy", prow |-> Some(plm[first_index(pm_idx)]),
                             notes |-> <<Note("Fuzzy material match", Some(best[1][2]))>>]
                       ELSE [kind |-> "none", prow |-> None, notes |-> <<>>]
               ELSE [kind |-> "unmatched", prow |-> None,
                     notes |-> <<Note("Material not found in PLM (best material fuzzy score)",
                                      IF best # None THEN Some(best[1][2]) ELSE None)>>]
       ELSE [kind |-> "unmatched", prow |-> None,
             notes |-> <<Note("PLM materials list empty", None)>>]

\* mutant: the material description is not searched
vendor_check_no_description(sap_vendor, plm_vendor_val, sap_desc) ==
  IF sap_vendor # <<>> /\ plm_vendor_val # <<>> /\ sap_vendor = plm_vendor_val
  THEN VendorExact
  ELSE VendorNotFound

\* Vendor check
vendor_check(sap_vendor, plm_vendor_val, sap_desc) ==
  IF sap_vendor # <<>> /\ plm_vendor_val # <<>> /\ sap_vendor = plm_vendor_val
  THEN VendorExact
  ELSE IF plm_vendor_val # <<>> /\ Contains(sap_desc, plm_vendor_val)
       THEN VendorInDescription
       ELSE VendorNotFound

\* mutant: a missing quantity is read as zero
consumption_check_zero_default(sap_cons, plm_cons) ==
  LET a == IF sap_cons = None THEN 0 ELSE sap_cons[1]
      b == IF plm_cons = None THEN 0 ELSE plm_cons[1]
  IN [ConsumptionDiff |-> Some(b - a),
      DifferenceFlag |-> IF a > b THEN SapHigher ELSE DifferenceOK,
      Consumption_Similarity |-> consumption_similarity(sap_cons, plm_cons)]

\* Consumption diff & flag
consumption_check(sap_cons, plm_cons) ==
  IF sap_cons = None \/ plm_cons = None
  THEN [ConsumptionDiff |-> None, DifferenceFlag |-> MissingConsumption,
        Consumption_Similarity |-> 0]
  ELSE [ConsumptionDiff |-> Some(plm_cons[1] - sap_cons[1]),
        DifferenceFlag |-> IF sap_cons[1] > plm_cons[1] THEN SapHigher ELSE DifferenceOK,
        Consumption_Similarity |-> consumption_similarity(sap_cons, plm_cons)]

\* vendor, color, consumption and material similarity of a matched row
matched_out(row_out, srow, prow) ==
  LET vc == vendor_check(srow.vendor, prow.vendor, srow.desc)
      cc == consumption_check(row_out.SAP_Consumption, safe_number(prow.cons))
  IN [row_out EXCEPT
        !.PLM_Material = prow.mat,
        !.Vendor_PLM = prow.vendor,
        !.Color_PLM = prow.color,
        !.PLM_Consumption = safe_number(prow.cons),
        !.Vendor_Check = vc,
        !.Notes = IF vc = VendorNotFound
                  THEN @ \o <<Note("Vendor not found in SAP vendor column or material description", None)>>
                  ELSE @,
        !.Color_Similarity = IF prow.color # <<>> /\ srow.color # <<>>
                             THEN token_sort_ratio(srow.color, prow.color) ELSE 0,
        !.ConsumptionDiff = cc.ConsumptionDiff,
        !.DifferenceFlag = cc.DifferenceFlag,
        !.Consumption_Similarity = cc.Consumption_Similarity,
        !.Material_Similarity = IF srow.mat # <<>> /\ prow.mat # <<>>
                                THEN token_sort_ratio(srow.mat, prow.mat) ELSE 0]

\* One iteration of the loop: the result row, and whether it is also
\* appended to missing_in_plm_rows
eval_row(srow, plm, index, values, threshold) ==
  LET row_out == row_init(srow)
  IN IF component_excluded(srow.comp)
     THEN [row |-> [row_out EXCEPT !.Component_Flag = ComponentExcludedFlag,
                                   !.Notes = <<Note("Component exclusion - skipped further checks", None)>>],
           missing |-> FALSE]
     ELSE LET m == match_row(srow.mat, plm, index, values, threshold)
              found == [row_out EXCEPT !.Found_in_PLM = m.kind \in {"exact", "fuzzy"},
                                       !.Notes = m.notes]
          IN IF m.kind = "unmatched"
             THEN [row |-> found, missing |-> TRUE]
             ELSE IF m.prow # None
                  THEN [row |-> matched_out(found, srow, m.prow[1]), missing |-> FALSE]
                  ELSE [row |-> [found EXCEPT !.Notes =
                                   <<Note("No PLM match row found (unexpected path)", None)>>],
                        missing |-> FALSE]

\* mutant: the row is inserted at the front
append_result_front(rs, row_out) == <<row_out>> \o rs

\* results.append(row_out)
append_result(rs, row_out) == Append(rs, row_out)

\* ------------------------------------------------------------------------
\* Summary numbers
\* ------------------------------------------------------------------------
\* mutant: the rows are de-duplicated by SAP material (first row kept) before
\* they are counted
summary_numbers_dedup(rs) ==
  LET Kept(i) == \A j \in 1..(i - 1) : rs[j].Material_SAP # rs[i].Material_SAP
      CountKept(P(_)) == Cardinality({i \in DOMAIN rs : Kept(i) /\ P(rs[i])})
      NotFound(r) == r.Found_in_PLM = FALSE
      Excluded(r) == r.Component_Flag # ""
      Mismatch(r) == r.Vendor_Check = VendorNotFound
      Higher(r) == r.DifferenceFlag = SapHigher
      Ok(r) == r.DifferenceFlag = DifferenceOK
      AnyRow(r) == TRUE
  IN [total_rows |-> CountKept(AnyRow),
      not_in_plm |-> CountKept(NotFound),
      comp_excluded |-> CountKept(Excluded),
      vendor_mismatch |-> CountKept(Mismatch),
      sap_higher |-> CountKept(Higher),
      ok_count |-> CountKept(Ok)]

summary_numbers(rs) ==
  LET CountRows(P(_)) == Cardinality({i \in DOMAIN rs : P(rs[i])})
      NotFound(r) == r.Found_in_PLM = FALSE
      Excluded(r) == r.Component_Flag # ""
      Mismatch(r) == r.Vendor_Check = VendorNotFound
      Higher(r) == r.DifferenceFlag = SapHigher
      Ok(r) == r.DifferenceFlag = DifferenceOK
  IN [total_rows |-> Len(rs),
      not_in_plm |-> CountRows(NotFound),
      comp_excluded |-> CountRows(Excluded),
      vendor_mismatch |-> CountRows(Mismatch),
      sap_higher |-> CountRows(Higher),
      ok_count |-> CountRows(Ok)]

\* ------------------------------------------------------------------------
\* Inputs of a run: the two uploaded sheets and the slider value
\* ------------------------------------------------------------------------
SapRow(mat, comp, desc, vendor, color, cons) ==
  [mat |-> mat, comp |-> comp, desc |-> desc, vendor |-> vendor,
   color |-> color, cons |-> cons]

PlmRow(mat, vendor, color, cons) ==
  [mat |-> mat, vendor |-> vendor, color |-> color, cons |-> cons]

\* raw SAP rows (Material, Component, Material Description, Vendor
\* Reference, Color, Comp.Qty.)
SapRows ==
  LET m1 == <<"m", "1">>
      xm2 == <<"x", " ", "m", "2">>
      v1 == <<"v", "1">>
      xv9 == <<"x", " ", "v", "9">>
      ten == <<"1", "0">>
  IN {SapRow(m1, <<"a", "3">>, <<>>, v1, <<"a", " ", "b">>, ten),
      SapRow(m1, <<" ", "3", "a">>, xv9, v1, <<>>, ten),
      SapRow(xm2, <<"a", "-", "b">>, <<>>, <<>>, <<>>, <<>>),
      SapRow(xm2, <<>>, xv9, <<>>, <<>>, <<"0">>),
      SapRow(<<"M", "1">>, <<"a", "b">>, xv9, v1, <<>>, <<"1", "2">>),
      SapRow(<<>>, <<"a", "b">>, <<>>, <<>>, <<>>, <<"n", "/", "a">>)}

\* raw PLM rows (Material, Vendor Reference, Color, Qty(Cons.))
PlmRows ==
  LET v9 == <<"v", "9">>
  IN {PlmRow(<<"m", "1", " ">>, <<"v", "1", " ">>, <<"b", " ", "a">>, <<"1", "2">>),
      PlmRow(<<"m", "1">>, v9, <<>>, <<"1", ",", "0">>),
      PlmRow(<<"m", "2", "x">>, <<>>, <<>>, <<>>),
      PlmRow(<<>>, v9, <<>>, <<"5">>)}

\* slider positions
Thresholds == {86, 87, SliderMax}

\* the sheets of at most n rows over S, no row repeated within a sheet
SeqsUpTo(S, n) ==
  UNION {{f \in [1..k -> S] : \A i, j \in 1..k : i # j => f[i] # f[j]} : k \in 0..n}

\* ------------------------------------------------------------------------
\* The run
\* ------------------------------------------------------------------------
Init ==
  /\ pc = "uploaded"
  /\ sap_df \in SeqsUpTo(SapRows, MaxSapRows)
  /\ plm_df \in SeqsUpTo(PlmRows, MaxPlmRows)
  /\ fuzzy_threshold \in Thresholds
  /\ plm_index_by_material = <<>>
  /\ plm_material_values = <<>>
  /\ results = <<>>
  /\ missing_in_plm_rows = <<>>
  /\ summary = None
  /\ quantities = <<>>
  /\ compared = None

\* df[c].astype(str).str.strip() for every column of a frame
strip_cells(df) == [i \in DOMAIN df |-> [c \in DOMAIN df[i] |-> strip(df[i][c])]]

\* Normalize strings
Normalize ==
  /\ pc = "uploaded"
  /\ sap_df' = strip_cells(sap_df)
  /\ plm_df' = strip_cells(plm_df)
  /\ pc' = "normalized"
  /\ UNCHANGED <<fuzzy_threshold, plm_index_by_material, plm_material_values,
                 results, missing_in_plm_rows, summary, quantities, compared>>

\* plm_index_by_material: key -> the (idx, prow) pairs of the rows with
\* that key, in row order
build_index(plm) ==
  LET pairs == [i \in DOMAIN plm |-> <<i, plm[i]>>]
  IN [k \in {plm[i].mat : i \in DOMAIN plm} |->
        LET HasKey(e) == e[2].mat = k IN SelectSeq(pairs, HasKey)]

\* Build PLM index by material for exact lookup
BuildIndex ==
  /\ pc = "normalized"
  /\ plm_index_by_material' = build_index(plm_df)
  /\ plm_material_values' = [i \in DOMAIN plm_df |-> plm_df[i].mat]
  /\ pc' = "loop"
  /\ UNCHANGED <<sap_df, plm_df, fuzzy_threshold, results, missing_in_plm_rows, summary,
                 quantities, compared>>

\* for sidx, srow in sap_df.iterrows(): one iteration
ProcessRow ==
  /\ pc = "loop"
  /\ Len(results) < Len(sap_df)
  /\ LET srow == sap_df[Len(results) + 1]
         out == eval_row(srow, plm_df, plm_index_by_material,
                         plm_material_values, fuzzy_threshold)
     IN /\ results' = append_result(results, out.row)
        /\ missing_in_plm_rows' = IF out.missing
                                  THEN Append(missing_in_plm_rows, out.row)
                                  ELSE missing_in_plm_rows
  /\ UNCHANGED <<pc, sap_df, plm_df, fuzzy_threshold, plm_index_by_material,
                 plm_material_values, summary, quantities, compared>>

\* results_df = pd.DataFrame(results) and the summary numbers.  A frame built
\* from an empty list has no columns, so results_df["Found_in_PLM"] raises
\* KeyError and the run ends without a summary.
Summarize ==
  /\ pc = "loop"
  /\ Len(results) = Len(sap_df)
  /\ IF results = <<>>
     THEN pc' = "KeyError" /\ summary' = summary
     ELSE pc' = "done" /\ summary' = Some(summary_numbers(results))
  /\ UNCHANGED <<sap_df, plm_df, fuzzy_threshold, plm_index_by_material,
                 plm_material_values, results, missing_in_plm_rows, quantities, compared>>

Next == Normalize \/ BuildIndex \/ ProcessRow \/ Summarize

Spec == Init /\ [][Next]_vars

\* ------------------------------------------------------------------------
\* The quantity comparison on its own: consumption_similarity and the
\* consumption diff & flag applied to one pair of quantity cells
\* ------------------------------------------------------------------------
\* quantity cells: empty, non-numeric, zero, positive, negative, with a
\* thousands separator
QuantityCells ==
  {<<>>, <<"n", "/", "a">>, <<"0">>, <<"1">>, <<"5">>, <<"1", "0">>,
   <<"1", "2">>, <<"1", ",", "0", "0">>, <<"-", "5">>, <<"-", "1", "2">>}

InitQuantities ==
  /\ pc = "quantities"
  /\ sap_df = <<>>
  /\ plm_df = <<>>
  /\ fuzzy_threshold = SliderMax
  /\ plm_index_by_material = <<>>
  /\ plm_material_values = <<>>
  /\ results = <<>>
  /\ missing_in_plm_rows = <<>>
  /\ summary = None
  /\ quantities \in QuantityCells \X QuantityCells
  /\ compared = None

\* sap_cons = safe_number(sap_cons_raw), plm_cons = safe_number(plm_cons_raw),
\* then consumption_similarity(sap_cons, plm_cons) and the diff & flag
CompareQuantities ==
  /\ pc = "quantities"
  /\ compared = None
  /\ LET sap_cons == safe_number(quantities[1])
         plm_cons == safe_number(quantities[2])
     IN compared' = Some([sap_cons |-> sap_cons,
                          plm_cons |-> plm_cons,
                          similarity |-> consumption_similarity(sap_cons, plm_cons),
                          check |-> consumption_check(sap_cons, plm_cons)])
  /\ UNCHANGED <<pc, sap_df, plm_df, fuzzy_threshold, plm_index_by_material,
                 plm_material_values, results, missing_in_plm_rows, summary,
                 quantities>>

NextQuantities == CompareQuantities

SpecQuantities == InitQuantities /\ [][NextQuantities]_vars

\* ------------------------------------------------------------------------
\* Vocabulary of the properties
\* ------------------------------------------------------------------------
\* result row i comes from SAP row i; the keys of the PLM rows
PlmKeys == {plm_df[j].mat : j \in DOMAIN plm_df}

IsExcluded(out) == out.Component_Flag = ComponentExcludedFlag

IsUnmatched(out) == out.Found_in_PLM = FALSE /\ out.Component_Flag = ""

IsMatched(out) == out.Found_in_PLM = TRUE

HasFuzzyNote(out) ==
  \E k \in DOMAIN out.Notes : out.Notes[k].text = "Fuzzy material match"

\* every downstream-dependent field is in its not-applicable state
DownstreamNotApplicable(out) ==
  /\ out.PLM_Material = <<>>
  /\ out.Vendor_PLM = <<>>
  /\ out.Color_PLM = <<>>
  /\ out.Vendor_Check = ""
  /\ out.PLM_Consumption = None
  /\ out.ConsumptionDiff = None
  /\ out.DifferenceFlag = ""
  /\ out.Material_Similarity = 0
  /\ out.Color_Similarity = 0
  /\ out.Consumption_Similarity = 0

\* the component rule as the specification words it
ComponentRuleApplies(comp) ==
  /\ comp # <<>>
  /\ \/ \E k \in DOMAIN comp : comp[k] = "-"
     \/ \E k \in DOMAIN comp : comp[k] = "3" /\ \A l \in 1..(k - 1) : comp[l] = " "

\* the highest similarity of a key against the downstream keys
BestScore(key) ==
  CHOOSE sc \in {token_sort_ratio(key, k) : k \in PlmKeys} :
    \A k \in PlmKeys : token_sort_ratio(key, k) <= sc

\* the first downstream row that carries a key
FirstRowWithKey(key) ==
  plm_df[CHOOSE j \in DOMAIN plm_df :
           plm_df[j].mat = key /\ \A l \in 1..(j - 1) : plm_df[l].mat # key]

\* ------------------------------------------------------------------------
\* C1  Component exclusion: a row whose component is non-empty and contains
\* '-' or starts with '3' is marked excluded and all its downstream-dependent
\* fields stay not applicable, whatever its other fields, the PLM rows and
\* the threshold are.
\* ------------------------------------------------------------------------
C1_ComponentExclusion ==
  \A i \in DOMAIN results :
    ComponentRuleApplies(sap_df[i].comp) =>
      /\ IsExcluded(results[i])
      /\ results[i].Found_in_PLM = FALSE
      /\ DownstreamNotApplicable(results[i])
      /\ \A k \in DOMAIN missing_in_plm_rows : missing_in_plm_rows[k] # results[i]

\* an excluded row that starts with '3', has no '-', and whose key is a PLM key
C1_Witness ==
  \E i \in DOMAIN results :
    /\ IsExcluded(results[i])
    /\ startswith(sap_df[i].comp, <<"3">>)
    /\ ~Contains(sap_df[i].comp, <<"-">>)
    /\ sap_df[i].mat \in PlmKeys

\* ------------------------------------------------------------------------
\* C2  Exact match is independent of the threshold.  As claimed: every
\* baseline row whose key equals the key of some PLM row is an exact match
\* (found, bound to a row with that key, no fuzzy score), for every threshold.
\* ------------------------------------------------------------------------
C2_ExactMatchAsClaimed ==
  \A i \in DOMAIN results :
    sap_df[i].mat \in PlmKeys =>
      /\ results[i].Found_in_PLM = TRUE
      /\ results[i].PLM_Material = sap_df[i].mat
      /\ ~HasFuzzyNote(results[i])

\* C2 as amended: every baseline row that is not excluded by the component
\* rule and whose non-empty key equals the key of some PLM row is an exact
\* match (found, bound to a row with that key, no fuzzy score recorded), for
\* every threshold.
C2_ExactMatch ==
  \A i \in DOMAIN results :
    (/\ ~ComponentRuleApplies(sap_df[i].comp)
     /\ sap_df[i].mat # <<>>
     /\ sap_df[i].mat \in PlmKeys) =>
      /\ results[i].Found_in_PLM = TRUE
      /\ results[i].PLM_Material = sap_df[i].mat
      /\ results[i].Material_Similarity = 100
      /\ ~HasFuzzyNote(results[i])

\* an exact match at the highest threshold, the key carried by two PLM rows
C2_Witness ==
  \E i \in DOMAIN results :
    /\ sap_df[i].mat # <<>>
    /\ sap_df[i].mat \in PlmKeys
    /\ results[i].Found_in_PLM = TRUE
    /\ ~HasFuzzyNote(results[i])
    /\ fuzzy_threshold = SliderMax
    /\ Cardinality({j \in DOMAIN plm_df : plm_df[j].mat = sap_df[i].mat}) > 1

\* ------------------------------------------------------------------------
\* C3  Fuzzy fallback: a row that is not excluded and has no exact match is
\* a match bound to a row carrying the best key, with the score in the notes,
\* when the PLM key list is non-empty and the best score is >= threshold
\* (equality included); otherwise it is unmatched, carries the best score or
\* the empty-list message, and is in the unmatched list.
\* ------------------------------------------------------------------------
C3_FuzzyFallback ==
  \A i \in DOMAIN results :
    (/\ ~ComponentRuleApplies(sap_df[i].comp)
     /\ (sap_df[i].mat = <<>> \/ sap_df[i].mat \notin PlmKeys)) =>
      LET key == sap_df[i].mat
          out == results[i]
      IN IF PlmKeys # {} /\ BestScore(key) >= fuzzy_threshold
         THEN /\ out.Found_in_PLM = TRUE
              /\ out.PLM_Material \in PlmKeys
              /\ token_sort_ratio(key, out.PLM_Material) = BestScore(key)
              /\ out.Notes # <<>>
              /\ out.Notes[1] = Note("Fuzzy material match", Some(BestScore(key)))
              /\ \A k \in DOMAIN missing_in_plm_rows : missing_in_plm_rows[k] # out
         ELSE /\ IsUnmatched(out)
              /\ out.Notes =
                   IF PlmKeys = {}
                   THEN <<Note("PLM materials list empty", None)>>
                   ELSE <<Note("Material not found in PLM (best material fuzzy score)",
                               Some(BestScore(key)))>>
              /\ \E k \in DOMAIN missing_in_plm_rows : missing_in_plm_rows[k] = out

\* a fuzzy match whose score equals the threshold
C3_Witness ==
  \E i \in DOMAIN results :
    /\ results[i].Found_in_PLM = TRUE
    /\ results[i].Notes # <<>>
    /\ results[i].Notes[1] = Note("Fuzzy material match", Some(fuzzy_threshold))
    /\ results[i].PLM_Material # sap_df[i].mat

\* ------------------------------------------------------------------------
\* C4  Vendor verification of a matched row.  As claimed: exact when the
\* trimmed vendor references are equal, else found-in-description when the
\* PLM vendor is a substring of the SAP material description, else not
\* found, empty vendor strings included.
\* ------------------------------------------------------------------------
C4_VendorAsClaimed ==
  \A i \in DOMAIN results :
    IsMatched(results[i]) =>
      LET out == results[i]
      IN out.Vendor_Check =
           IF strip(out.Vendor_SAP) = strip(out.Vendor_PLM) THEN VendorExact
           ELSE IF Contains(out.Material_Description_SAP, out.Vendor_PLM)
                THEN VendorInDescription
                ELSE VendorNotFound

\* C4 as amended: the verdict is exact when the trimmed vendor references are
\* both non-empty and equal; otherwise found-in-description when the PLM
\* vendor reference is non-empty and a substring of the SAP material
\* description; otherwise not found (so an empty PLM vendor is never OK).
C4_Vendor ==
  \A i \in DOMAIN results :
    IsMatched(results[i]) =>
      LET out == results[i]
          prow == FirstRowWithKey(out.PLM_Material)
          equal == /\ sap_df[i].vendor # <<>>
                   /\ prow.vendor # <<>>
                   /\ strip(sap_df[i].vendor) = strip(prow.vendor)
          inDesc == prow.vendor # <<>> /\ Contains(sap_df[i].desc, prow.vendor)
      IN /\ out.Vendor_Check \in {VendorExact, VendorInDescription, VendorNotFound}
         /\ out.Vendor_Check = VendorExact <=> equal
         /\ out.Vendor_Check = VendorInDescription <=> (~equal /\ inDesc)
         /\ out.Vendor_Check = VendorNotFound <=> (~equal /\ ~inDesc)

\* a matched row whose PLM vendor differs from the SAP vendor and is found in
\* the description
C4_Witness ==
  \E i \in DOMAIN results :
    /\ IsMatched(results[i])
    /\ results[i].Vendor_Check = VendorInDescription
    /\ results[i].Vendor_SAP # <<>>
    /\ results[i].Vendor_SAP # results[i].Vendor_PLM

C6_UnmatchedNotApplicable ==
  /\ \A i \in DOMAIN results :
       IsUnmatched(results[i]) =>
         /\ DownstreamNotApplicable(results[i])
         /\ results[i].DifferenceFlag \notin {SapHigher, DifferenceOK, MissingConsumption}
         /\ results[i].Vendor_Check \notin {VendorExact, VendorInDescription, VendorNotFound}
  /\ \A k \in DOMAIN missing_in_plm_rows :
       /\ IsUnmatched(missing_in_plm_rows[k])
       /\ DownstreamNotApplicable(missing_in_plm_rows[k])

\* an unmatched row with a parseable SAP quantity, PLM rows being present
C6_Witness ==
  \E i \in DOMAIN results :
    /\ IsUnmatched(results[i])
    /\ results[i].SAP_Consumption # None
    /\ plm_df # <<>>
    /\ \E k \in DOMAIN missing_in_plm_rows : missing_in_plm_rows[k] = results[i]

\* ------------------------------------------------------------------------
\* C7  The "Not in PLM" number of the summary equals the number of unmatched
\* result rows, which are exactly the rows of missing_in_plm_rows; rows
\* excluded by the component rule are counted by "Component excluded" only.
\* ------------------------------------------------------------------------
C7_NotInPlmCountsUnmatched ==
  pc = "done" =>
    /\ summary[1].not_in_plm = Cardinality({i \in DOMAIN results : IsUnmatched(results[i])})
    /\ summary[1].not_in_plm = Len(missing_in_plm_rows)
    /\ summary[1].comp_excluded = Cardinality({i \in DOMAIN results : IsExcluded(results[i])})

\* the baseline fields a result row copies from its SAP row
FromRow(out, srow) ==
  /\ out.Material_SAP = srow.mat
  /\ out.Material_Description_SAP = srow.desc
  /\ out.Component_SAP = srow.comp
  /\ out.Vendor_SAP = srow.vendor
  /\ out.Color_SAP = srow.color
  /\ out.SAP_Consumption = safe_number(srow.cons)
  /\ IsExcluded(out) <=> ComponentRuleApplies(srow.comp)

\* ------------------------------------------------------------------------
\* C8  Output ordering: every step keeps the result rows already written
\* unchanged, result row i is the outcome of SAP row i, a finished run has
\* exactly one result row per SAP row, and missing_in_plm_rows is the
\* subsequence of the unmatched result rows in the same order.
\* ------------------------------------------------------------------------
C8_OutputOrder ==
  [][/\ Len(results') \in {Len(results), Len(results) + 1}
     /\ \A i \in DOMAIN results : results'[i] = results[i]
     /\ Len(results') <= Len(sap_df')
     /\ \A i \in DOMAIN results' : FromRow(results'[i], sap_df'[i])
     /\ missing_in_plm_rows' = SelectSeq(results', IsUnmatched)
     /\ (pc' \in {"done", "KeyError"} => Len(results') = Len(sap_df'))]_vars

\* a finished run over two different SAP rows, the second one unmatched
C8_Witness ==
  /\ pc = "done"
  /\ Len(results) = 2
  /\ sap_df[1] # sap_df[2]
  /\ IsMatched(results[1])
  /\ missing_in_plm_rows = <<results[2]>>

\* ------------------------------------------------------------------------
\* C9  First-occurrence tie-break: an exact match and a fuzzy match both bind
\* the SAP row to the PLM row with the lowest position among the rows that
\* carry the matched key; the vendor and consumption verdicts are computed
\* from that row.
\* ------------------------------------------------------------------------
C9_FirstOccurrence ==
  \A i \in DOMAIN results :
    IsMatched(results[i]) =>
      LET out == results[i]
          prow == FirstRowWithKey(out.PLM_Material)
      IN /\ out.PLM_Material \in PlmKeys
         /\ out.Vendor_PLM = prow.vendor
         /\ out.Color_PLM = prow.color
         /\ out.PLM_Consumption = safe_number(prow.cons)
         /\ out.Vendor_Check = VendorExact =>
              (prow.vendor # <<>> /\ prow.vendor = sap_df[i].vendor)
         /\ out.Vendor_Check = VendorInDescription =>
              Contains(sap_df[i].desc, prow.vendor)
         /\ out.DifferenceFlag = MissingConsumption <=>
              (out.SAP_Consumption = None \/ safe_number(prow.cons) = None)

\* an exact and a fuzzy match on a key carried by two PLM rows that differ in
\* vendor and quantity
C9_Witness ==
  /\ Len(plm_df) = 2
  /\ plm_df[1].mat = plm_df[2].mat
  /\ plm_df[1].vendor # plm_df[2].vendor
  /\ plm_df[1].cons # plm_df[2].cons
  /\ \E i, j \in DOMAIN results :
       /\ IsMatched(results[i]) /\ ~HasFuzzyNote(results[i])
       /\ IsMatched(results[j]) /\ HasFuzzyNote(results[j])

\* the permutations of 1..n
PermutationsOf(n) ==
  {p \in [1..n -> 1..n] : \A a, b \in 1..n : a # b => p[a] # p[b]}

\* ------------------------------------------------------------------------
\* C10  The six summary numbers depend on the multiset of result rows only:
\* the numbers of every permutation of the result rows, and of the result
\* rows of every permutation of the SAP rows (same PLM rows and threshold),
\* equal the summary of the run.
\* ------------------------------------------------------------------------
C10_SummaryOrderIndependent ==
  pc = "done" =>
    \A p \in PermutationsOf(Len(results)) :
      /\ summary_numbers([i \in DOMAIN results |-> results[p[i]]]) = summary[1]
      /\ summary_numbers([i \in DOMAIN sap_df |->
                           eval_row(sap_df[p[i]], plm_df, plm_index_by_material,
                                    plm_material_values, fuzzy_threshold).row])
           = summary[1]

\* a finished run over two SAP rows with the same key, one excluded and one
\* matched with a vendor mismatch
C10_Witness ==
  /\ pc = "done"
  /\ Len(results) = 2
  /\ results[1].Material_SAP = results[2].Material_SAP
  /\ IsExcluded(results[1])
  /\ IsMatched(results[2])
  /\ summary[1].vendor_mismatch = 1

\* ------------------------------------------------------------------------
\* C11  consumption_similarity lies in [0, 100] for every pair of inputs, is
\* 100 when both inputs are missing, and is symmetric; the signed difference
\* (PLM minus SAP) of two parseable quantities only changes its sign when
\* the two roles are swapped.
\* ------------------------------------------------------------------------
C11_SimilaritySymmetric ==
  compared # None =>
    LET a == compared[1].sap_cons
        b == compared[1].plm_cons
        swapped == consumption_check(b, a)
    IN /\ a = safe_number(quantities[1])
       /\ b = safe_number(quantities[2])
       /\ compared[1].similarity \in 0..10000
       /\ (a = None /\ b = None) => compared[1].similarity = 10000
       /\ compared[1].similarity = consumption_similarity(b, a)
       /\ (a # None /\ b # None) =>
            /\ compared[1].check.Consumption_Similarity = compared[1].similarity
            /\ compared[1].check.ConsumptionDiff = Some(b[1] - a[1])
            /\ swapped.ConsumptionDiff = Some(-(b[1] - a[1]))
            /\ swapped.Consumption_Similarity = compared[1].similarity

\* two parseable quantities of opposite sign and different size have been
\* compared
C11_Witness ==
  /\ compared # None
  /\ compared[1].sap_cons # None
  /\ compared[1].plm_cons # None
  /\ compared[1].sap_cons[1] < 0
  /\ compared[1].plm_cons[1] > 0
  /\ compared[1].check.ConsumptionDiff[1] > 0
  /\ compared[1].similarity = 0

\* the three outcome classes
VendorVerdicts == {VendorExact, VendorInDescription, VendorNotFound}

ConsumptionVerdicts == {MissingConsumption, SapHigher, DifferenceOK}

ExcludedClass(out) ==
  /\ out.Component_Flag # ""
  /\ out.Found_in_PLM = FALSE
  /\ out.Vendor_Check = ""
  /\ out.DifferenceFlag = ""

UnmatchedClass(out) ==
  /\ out.Component_Flag = ""
  /\ out.Found_in_PLM = FALSE
  /\ out.Vendor_Check = ""
  /\ out.DifferenceFlag = ""
  /\ \E k \in DOMAIN missing_in_plm_rows : missing_in_plm_rows[k] = out

MatchedClass(out) ==
  /\ out.Found_in_PLM = TRUE
  /\ out.Vendor_Check \in VendorVerdicts
  /\ out.DifferenceFlag \in ConsumptionVerdicts

ClassesOf(out) ==
  {c \in {"excluded", "unmatched", "matched"} :
     \/ c = "excluded" /\ ExcludedClass(out)
     \/ c = "unmatched" /\ UnmatchedClass(out)
     \/ c = "matched" /\ MatchedClass(out)}

NumberIn(c) == Cardinality({i \in DOMAIN results : c \in ClassesOf(results[i])})

====
